---- MODULE Spec2Model ----
(***************************************************************************)
(* Model of the on-call allocation engine of streamlit_guard_scheduler.py: *)
(* class SmartScheduler (constructor state, calculate_doctor_score and     *)
(* generate).  One step of the model is one iteration of the inner loop of *)
(* generate (one (date, shift) slot); the call and the return of generate  *)
(* are steps of their own.                                                 *)
(*                                                                         *)
(* Dates are proleptic Gregorian ordinals (datetime.date.toordinal()), so  *)
(* that a difference of dates is a number of days.  The schedule rows keep *)
(* the date itself where the code keeps date.isoformat().  Shift labels    *)
(* are written without diacritics ("Garda" for the source's label).        *)
(* A score is a Python float, computed term by term as the code does.  The *)
(* list scores of generate is rebuilt in every slot and read only in that  *)
(* slot: it is a LET of the step, ScoresOf, and not a variable.            *)
(***************************************************************************)
EXTENDS Integers, Sequences, FiniteSets, TLC

VARIABLES
    doctor_ids,       \* self.doctor_ids: the ordered list of staff ids
    monthly_limits,   \* self.monthly_limits: id -> monthly cap
    unavail_set,      \* self.unavail_set: set of <<id, date>>
    doc_preferences,  \* self.doc_preferences: id -> list of [day, shift]
    shift_counts,     \* self.shift_counts: id -> month key -> count
    last_shift_date,  \* self.last_shift_date: id -> date (DateMin by default)
    weekend_counts,   \* self.weekend_counts: id -> count
    start_date,       \* generate's argument
    end_date,         \* generate's argument
    shifts_per_day,   \* generate's argument
    shifts,           \* generate's local: the labels of the template
    current_date,     \* generate's local
    shift_idx,        \* position of the inner for loop in shifts (1-based)
    selected_id,      \* generate's local: the staff member of the last slot
    schedule_rows,    \* generate's local: the rows emitted so far
    warnings,         \* the st.warning calls made so far, as [date, shift]
    pc,               \* "new" | "loop" | "done" | "error"
    staff,            \* the staff table before the specialty filter: list of [doctor_id, speciality]
    specialty_filter, \* the specialty tag the roster is restricted to, or NoFilter
    reservations,     \* the reservation table: list of [doctor_id, date, shift, status]
    priority          \* the priority ledger: <<id, month key>> -> score, absent entries counting 0

vars == <<doctor_ids, monthly_limits, unavail_set, doc_preferences,
          shift_counts, last_shift_date, weekend_counts, start_date, end_date,
          shifts_per_day, shifts, current_date, shift_idx, selected_id, schedule_rows,
          warnings, pc, staff, specialty_filter, reservations, priority>>

\* What a run reads and never writes: the staff table and its filter, the
\* tables given to the constructor and the arguments of generate.
inputs == <<staff, specialty_filter, doctor_ids, monthly_limits, unavail_set,
            doc_preferences, start_date, end_date, shifts_per_day>>

\* The tables of the reservation resolver, which generate never touches.
ledgers == <<reservations, priority>>

-----------------------------------------------------------------------------
(* Bounds of the model *)

\* Number of days after BaseDate at which a run may start.
MaxStart == 1
\* Largest number of days of a run.
MaxLen == 3
\* Largest monthly cap of a staff member.
MaxCap == 2
\* Largest number of absence records.
MaxAbs == 2

-----------------------------------------------------------------------------
(* Calendar *)

\* date(2025, 5, 30).toordinal(): a Friday, two days before a month ends.
BaseDate == 739401
\* date(2025, 6, 1).toordinal()
Jun1 == 739403
\* date(2025, 7, 1).toordinal()
Jul1 == 739433
\* datetime.date.min.toordinal()
DateMin == 1
\* The year of the model's window.
Year == 2025

\* date.month, for the dates of the model's window (May and June 2025)
MonthOf(d) == IF d < Jun1 THEN 5 ELSE IF d < Jul1 THEN 6 ELSE 7

\* month_key = (date.year, date.month)
MonthKey(d) == <<Year, MonthOf(d)>>

\* The month keys of the dates of the model's window.
MonthKeys == {<<Year, 5>>, <<Year, 6>>}

\* date.weekday(): Monday is 0, Sunday is 6
Weekday(d) == (d + 6) % 7

-----------------------------------------------------------------------------
(* Shift templates *)

\* SHIFT_TYPES.get(shifts_per_day, ["Tura 1", ..., "Tura n"])
ShiftsOf(n) ==
    CASE n = 1 -> <<"Garda 24h">>
      [] n = 2 -> <<"Garda Zi 12h (08-20)", "Garda Noapte 12h (20-08)">>
      [] n = 3 -> <<"Tura 1", "Tura 2", "Tura 3">>
      [] n = 4 -> <<"Tura 1", "Tura 2", "Tura 3", "Tura 4">>

\* The characters of the strings the model uses (shift labels and the
\* values of the preferred_shift column).
Chars(s) ==
    CASE s = "Garda 24h" -> <<"G","a","r","d","a"," ","2","4","h">>
      [] s = "Garda Zi 12h (08-20)" ->
            <<"G","a","r","d","a"," ","Z","i"," ","1","2","h"," ",
              "(","0","8","-","2","0",")">>
      [] s = "Garda Noapte 12h (20-08)" ->
            <<"G","a","r","d","a"," ","N","o","a","p","t","e"," ","1","2","h"," ",
              "(","2","0","-","0","8",")">>
      [] s = "Tura 1" -> <<"T","u","r","a"," ","1">>
      [] s = "Tura 2" -> <<"T","u","r","a"," ","2">>
      [] s = "Tura 3" -> <<"T","u","r","a"," ","3">>
      [] s = "Tura 4" -> <<"T","u","r","a"," ","4">>
      [] s = "Orice" -> <<"O","r","i","c","e">>
      [] s = "Zi" -> <<"Z","i">>
      [] s = "" -> <<>>

\* Python's `a in b` on strings: a is a substring of b.
StrIn(a, b) ==
    LET ca == Chars(a)
        cb == Chars(b)
    IN \E i \in 0..(Len(cb) - Len(ca)) :
          \A k \in 1..Len(ca) : cb[i + k] = ca[k]

-----------------------------------------------------------------------------
(* Scores *)

\* The sentinel returned for an absent staff member.
ScoreUnavailable == -1000
\* The sentinel returned for a staff member at the monthly cap.
ScoreOverLimit == -500
\* The threshold of the availability filter of generate.
AvailableAbove == -100
\* The numerator of the load-balance term.
LoadBonus == 100
\* The penalty for a shift less than two days after the previous one.
RestPenalty == 50
\* The bonus for more than a week of rest.
RestBonus == 20
\* The bonus of one matching preference.
PrefBonus == 30
\* The penalty per weekend shift already assigned.
WeekendPenalty == 10
\* The bounds of random.uniform(-5, 5).
Jitter == 5

-----------------------------------------------------------------------------
(* Python floats *)

\* A score is a Python float (IEEE 754 binary64), kept as sign and magnitude
\* in fixed point: magnitude = int + (hi * 2^26 + lo) / 2^52.  Every float
\* of magnitude in [1, 2^11), every sum of such floats and every integer
\* below 2^11 is of this form; the scores of the engine are (100 / n with
\* n <= 100, plus or minus small integers and a draw of random.uniform).
Limb == 2 ^ 26
Chunk == 2 ^ 13

\* float(n) of an integer n
Whole(n) == [neg |-> n < 0, int |-> IF n < 0 THEN -n ELSE n, hi |-> 0, lo |-> 0]

IsZero(a) == a.int = 0 /\ a.hi = 0 /\ a.lo = 0

\* |a| < |b|
MagLess(a, b) ==
    \/ a.int < b.int
    \/ a.int = b.int /\ a.hi < b.hi
    \/ a.int = b.int /\ a.hi = b.hi /\ a.lo < b.lo

\* a > b on floats (a zero is kept with neg = FALSE)
Greater(a, b) ==
    IF a.neg # b.neg THEN b.neg
    ELSE IF a.neg THEN MagLess(a, b)
    ELSE MagLess(b, a)

\* The weight of the leading binary digit of n < 2^11 (1 for n < 2).
TopBit(n) ==
    IF n < 2 THEN 1 ELSE IF n < 4 THEN 2 ELSE IF n < 8 THEN 4
    ELSE IF n < 16 THEN 8 ELSE IF n < 32 THEN 16 ELSE IF n < 64 THEN 32
    ELSE IF n < 128 THEN 64 ELSE IF n < 256 THEN 128 ELSE IF n < 512 THEN 256
    ELSE IF n < 1024 THEN 512 ELSE 1024

\* Round to nearest, ties to even, to 53 significant bits: the exact
\* magnitude is int + (hi * 2^26 + lo + t) / 2^52 with 0 <= t < 1, and tail
\* tells t = 0 (0), t < 1/2 (1), t = 1/2 (2) or t > 1/2 (3).  A magnitude
\* with b >= 1 integer digits keeps 53 - b fraction bits, so the last
\* b - 1 bits of lo are rounded away.
RoundEven(neg, int, hi, lo, tail) ==
    LET step == TopBit(int)
        r == lo % step
    IN IF r = 0 /\ tail = 0
       THEN [neg |-> neg /\ (int # 0 \/ hi # 0 \/ lo # 0),
             int |-> int, hi |-> hi, lo |-> lo]
       ELSE LET kept == lo - r
                odd == (kept \div step) % 2 = 1
                up == IF step = 1
                      THEN tail = 3 \/ (tail = 2 /\ odd)
                      ELSE \/ 2 * r > step
                           \/ 2 * r = step /\ (tail > 0 \/ odd)
                lo1 == IF up THEN kept + step ELSE kept
                hi1 == IF lo1 >= Limb THEN hi + 1 ELSE hi
                int1 == IF hi1 >= Limb THEN int + 1 ELSE int
            IN [neg |-> neg, int |-> int1, hi |-> hi1 % Limb, lo |-> lo1 % Limb]

\* a / n on ints (true division), for 1 <= n <= a: the correctly rounded
\* quotient, by long division in chunks of 13 bits.
FloatDiv(a, n) ==
    LET r0 == a % n
        q1 == (r0 * Chunk) \div n
        r1 == (r0 * Chunk) % n
        q2 == (r1 * Chunk) \div n
        r2 == (r1 * Chunk) % n
        q3 == (r2 * Chunk) \div n
        r3 == (r2 * Chunk) % n
        q4 == (r3 * Chunk) \div n
        r4 == (r3 * Chunk) % n
        tail == IF r4 = 0 THEN 0
                ELSE IF 2 * r4 < n THEN 1
                ELSE IF 2 * r4 = n THEN 2
                ELSE 3
    IN RoundEven(FALSE, a \div n, q1 * Chunk + q2, q3 * Chunk + q4, tail)

\* 100 / n for n = total_shifts + 1 up to 100, where the quotient is at
\* least 1
LoadTerms == [n \in 1..LoadBonus |-> FloatDiv(LoadBonus, n)]

\* |x| + |y|, rounded, with the sign neg
MagAdd(neg, x, y) ==
    LET lo == x.lo + y.lo
        hi == x.hi + y.hi + (IF lo >= Limb THEN 1 ELSE 0)
        int == x.int + y.int + (IF hi >= Limb THEN 1 ELSE 0)
    IN RoundEven(neg, int, hi % Limb, lo % Limb, 0)

\* |x| - |y| for |x| >= |y|, rounded, with the sign neg
MagSub(neg, x, y) ==
    LET lo == x.lo - y.lo
        hi == x.hi - y.hi - (IF lo < 0 THEN 1 ELSE 0)
        int == x.int - y.int - (IF hi < 0 THEN 1 ELSE 0)
    IN RoundEven(neg, int, (hi + Limb) % Limb, (lo + Limb) % Limb, 0)

\* x + y on floats
FloatAdd(x, y) ==
    IF IsZero(y) THEN x
    ELSE IF IsZero(x) THEN y
    ELSE IF x.neg = y.neg THEN MagAdd(x.neg, x, y)
    ELSE IF MagLess(x, y) THEN MagSub(y.neg, y, x)
    ELSE MagSub(x.neg, x, y)

\* The values of self.random(): k / 2^53 for every integer k from 0 below
\* 2^53, here (hi * 2^26 + lo) / 2^52 + half / 2^53.
RandomVals == [hi : 0..(Limb - 1), lo : 0..(Limb - 1), half : 0..1]

\* n * rnd on floats, for an integer n of magnitude below 32 and a value rnd
\* of self.random(): the exact product, rounded.
Times(n, rnd) ==
    LET m == IF n < 0 THEN -n ELSE n
        low == m * rnd.lo + (m * rnd.half) \div 2
        tail == IF (m * rnd.half) % 2 = 1 THEN 2 ELSE 0
        high == m * rnd.hi + low \div Limb
    IN RoundEven(n < 0, high \div Limb, high % Limb, low % Limb, tail)

\* random.uniform(a, b), which is a + (b - a) * self.random(), for integers
\* a and b and the value rnd of self.random()
uniform(a, b, rnd) == FloatAdd(Whole(a), Times(b - a, rnd))

\* The values of self.random() that the runs of the model draw: the
\* smallest, 0.0, the middle one, 0.5, and the largest, 1 - 2^-53.
RandomDraws ==
    {[hi |-> 0, lo |-> 0, half |-> 0],
     [hi |-> Limb \div 2, lo |-> 0, half |-> 0],
     [hi |-> Limb - 1, lo |-> Limb - 1, half |-> 1]}

\* The largest value of random.uniform(-5, 5): -5 + 10 * (1 - 2^-53) in
\* floats, 4.999999999999998 = 5 - 2^-49.
JitterMax == [neg |-> FALSE, int |-> Jitter - 1, hi |-> Limb - 1, lo |-> Limb - 8]

\* random.uniform(-5, 5) for the values of self.random() that the runs of
\* the model draw: -5.0, 0.0 and JitterMax.  The runs of the code draw any
\* value of RandomVals.  The list scores is not part of the state, and float
\* addition is monotone, so a score is monotone in its draw: whoever passes
\* the filter or comes first in the sort under some draws does so with the
\* largest draw for them and the smallest for the others, and the states a
\* slot can lead to under these draws are those it can lead to under any.
\* What the draws of the model do not give is every tie of two scores; the
\* statements about ties range over lists of scores, TiedLists, and not
\* over draws.
JitterDraws == {uniform(-Jitter, Jitter, rnd) : rnd \in RandomDraws}

-----------------------------------------------------------------------------

RECURSIVE SumOver(_, _)
SumOver(f, S) ==
    IF S = {} THEN 0
    ELSE LET x == CHOOSE y \in S : TRUE IN f[x] + SumOver(f, S \ {x})

\* TotalShifts counting the shifts of May only.
TotalShifts_may(doc_id) == shift_counts[doc_id][<<Year, 5>>]

\* sum(self.shift_counts[doc_id].values())
TotalShifts(doc_id) == SumOver(shift_counts[doc_id], MonthKeys)

\* (doc_id, date) in self.unavail_set
IsUnavailable(doc_id, date) == <<doc_id, date>> \in unavail_set

\* AtLimit with > for >=: the cap itself is not yet a limit.
AtLimit_above(doc_id, date) ==
    shift_counts[doc_id][MonthKey(date)] > monthly_limits[doc_id]

\* self.shift_counts[doc_id][month_key] >= self.monthly_limits[doc_id]
AtLimit(doc_id, date) ==
    shift_counts[doc_id][MonthKey(date)] >= monthly_limits[doc_id]

\* RestTerm with <= 2 for < 2.
RestTerm_inclusive(doc_id, date) ==
    LET days_since_last == date - last_shift_date[doc_id]
    IN IF days_since_last <= 2 THEN -RestPenalty
       ELSE IF days_since_last > 7 THEN RestBonus
       ELSE 0

\* The rest term: days_since_last < 2 -> -50, > 7 -> +20
RestTerm(doc_id, date) ==
    LET days_since_last == date - last_shift_date[doc_id]
    IN IF days_since_last < 2 THEN -RestPenalty
       ELSE IF days_since_last > 7 THEN RestBonus
       ELSE 0

\* One pass of the loop over self.doc_preferences[doc_id]
PrefMatches(pref, date, shift_name) ==
    pref.day = Weekday(date) /\ StrIn(pref.shift, shift_name)

RECURSIVE PrefTermOf(_, _, _)
PrefTermOf(prefs, date, shift_name) ==
    IF prefs = <<>> THEN 0
    ELSE (IF PrefMatches(Head(prefs), date, shift_name) THEN PrefBonus ELSE 0)
         + PrefTermOf(Tail(prefs), date, shift_name)

PrefTerm(doc_id, date, shift_name) ==
    PrefTermOf(doc_preferences[doc_id], date, shift_name)

\* The weekend term: -10 per weekend shift, on a Saturday or Sunday
WeekendTerm(doc_id, date) ==
    IF Weekday(date) >= 5 THEN -(weekend_counts[doc_id] * WeekendPenalty) ELSE 0

\* The loop over self.doc_preferences[doc_id]: score += 30 per match
RECURSIVE AddPreferences(_, _, _, _)
AddPreferences(score, prefs, date, shift_name) ==
    IF prefs = <<>> THEN score
    ELSE AddPreferences(IF PrefMatches(Head(prefs), date, shift_name)
                        THEN FloatAdd(score, Whole(PrefBonus))
                        ELSE score,
                        Tail(prefs), date, shift_name)

\* The float arithmetic of calculate_doctor_score: score = 0.0, then
\* += 100 / (total_shifts + 1), the rest term, 30 per matching preference,
\* the weekend term and the draw, each sum rounded as a float.
ScoreTerms(total_shifts, rest, prefs, date, shift_name, weekend, jitter) ==
    LET load == FloatAdd(Whole(0), LoadTerms[total_shifts + 1])
        rested == FloatAdd(load, Whole(rest))
        preferred == AddPreferences(rested, prefs, date, shift_name)
    IN FloatAdd(FloatAdd(preferred, Whole(weekend)), jitter)

\* SmartScheduler.calculate_doctor_score, with the value of
\* random.uniform(-5, 5) as a parameter.
calculate_doctor_score(doc_id, date, shift_name, jitter) ==
    IF IsUnavailable(doc_id, date) THEN Whole(ScoreUnavailable)
    ELSE IF AtLimit(doc_id, date) THEN Whole(ScoreOverLimit)
    ELSE ScoreTerms(TotalShifts(doc_id), RestTerm(doc_id, date),
                    doc_preferences[doc_id], date, shift_name,
                    WeekendTerm(doc_id, date), jitter)

-----------------------------------------------------------------------------
(* Selection *)

\* score > -100
PassesFilter(score) == Greater(score, Whole(AvailableAbove))

\* available = [(doc_id, score) for doc_id, score in scores if score > -100]
RECURSIVE AvailableOf(_)
AvailableOf(sc) ==
    IF sc = <<>> THEN <<>>
    ELSE IF PassesFilter(Head(sc)[2]) THEN <<Head(sc)>> \o AvailableOf(Tail(sc))
    ELSE AvailableOf(Tail(sc))

\* InsertDesc putting x before the entries with an equal score.
RECURSIVE InsertDesc_unstable(_, _)
InsertDesc_unstable(x, s) ==
    IF s = <<>> THEN <<x>>
    ELSE IF ~Greater(Head(s)[2], x[2]) THEN <<x>> \o s
    ELSE <<Head(s)>> \o InsertDesc_unstable(x, Tail(s))

\* Insertion of x into a list sorted by score descending, after the entries
\* with an equal score (list.sort is stable, also with reverse=True).
RECURSIVE InsertDesc(_, _)
InsertDesc(x, s) ==
    IF s = <<>> THEN <<x>>
    ELSE IF Greater(x[2], Head(s)[2]) THEN <<x>> \o s
    ELSE <<Head(s)>> \o InsertDesc(x, Tail(s))

\* available.sort(key=lambda x: x[1], reverse=True)
RECURSIVE SortDesc(_)
SortDesc(s) ==
    IF s = <<>> THEN <<>>
    ELSE InsertDesc(s[Len(s)], SortDesc(SubSeq(s, 1, Len(s) - 1)))

\* selected_id = available[0][0]
BestOf(available) == SortDesc(available)[1][1]

\* ForcedChoices returning a position of the list where an id is meant.
ForcedChoices_position(ids) == 1..Len(ids)

\* The values random.choice(self.doctor_ids) can return.
ForcedChoices(ids) == {ids[i] : i \in 1..Len(ids)}

-----------------------------------------------------------------------------
(* Inputs *)

\* The rosters of the model; ids are positive and not list positions.
Rosters == {<<>>, <<2>>, <<2, 1>>}

IdsOf(ids) == {ids[i] : i \in 1..Len(ids)}

\* The dates of the absence records of the model: the first weekend of the
\* window (Saturday 31 May and Sunday 1 June).
Dates == (BaseDate + 1)..(BaseDate + 2)

\* The shift templates offered by the page (the selectbox of main).
ShiftChoices == {1, 2}

\* The preference tables of the model (rows of doctor_id, preferred_day,
\* preferred_shift).
PrefTables ==
    {<<>>, <<[doctor_id |-> 2, day |-> 5, shift |-> "Garda 24h"]>>}

\* self.doc_preferences: the rows of each staff member, in table order
RECURSIVE PrefsOfDoc(_, _)
PrefsOfDoc(table, doc_id) ==
    IF table = <<>> THEN <<>>
    ELSE (IF Head(table).doctor_id = doc_id
          THEN <<[day |-> Head(table).day, shift |-> Head(table).shift]>>
          ELSE <<>>) \o PrefsOfDoc(Tail(table), doc_id)

\* The fields of SmartScheduler after __init__ on the given tables, together
\* with the arguments of the call of generate that follows.
InitScheduler(rosters, caps, tables, absences, starts, lens, templates) ==
    /\ doctor_ids \in rosters
    /\ monthly_limits \in [IdsOf(doctor_ids) -> caps]
    /\ unavail_set \in {S \in SUBSET (IdsOf(doctor_ids) \X Dates) : Cardinality(S) <= absences}
    /\ \E table \in tables :
          doc_preferences = [d \in IdsOf(doctor_ids) |-> PrefsOfDoc(table, d)]
    /\ shift_counts = [d \in IdsOf(doctor_ids) |-> [m \in MonthKeys |-> 0]]
    /\ last_shift_date = [d \in IdsOf(doctor_ids) |-> DateMin]
    /\ weekend_counts = [d \in IdsOf(doctor_ids) |-> 0]
    /\ start_date \in starts
    /\ \E len \in lens : end_date = start_date + len - 1
    /\ shifts_per_day \in templates
    /\ shifts = <<>>
    /\ current_date = 0
    /\ shift_idx = 0
    /\ selected_id = 0
    /\ schedule_rows = <<>>
    /\ warnings = <<>>
    /\ pc = "new"

\* The value of the specialty filter of a run that has none.
NoFilter == ""

\* The staff table of a roster whose members all have the specialty "ATI".
StaffOf(ids) ==
    [i \in 1..Len(ids) |-> [doctor_id |-> ids[i], speciality |-> "ATI"]]

\* The state before a run on the whole staff table: no specialty filter, no
\* reservation and an empty priority ledger.
InitWith(rosters, caps, tables, absences, starts, lens, templates) ==
    /\ InitScheduler(rosters, caps, tables, absences, starts, lens, templates)
    /\ staff = StaffOf(doctor_ids)
    /\ specialty_filter = NoFilter
    /\ reservations = <<>>
    /\ priority = <<>>

Init ==
    InitWith(Rosters, 1..MaxCap, PrefTables, MaxAbs,
             BaseDate..(BaseDate + MaxStart), 0..MaxLen, ShiftChoices)

-----------------------------------------------------------------------------
(* generate *)

\* ValidRoster without the check of the roster.
ValidRoster_unchecked(ids) == TRUE

\* `if not self.doctor_ids` is false
ValidRoster(ids) == ids # <<>>

\* InRange with < for <=: the last day is left out.
InRange_strict(date) == date < end_date

\* while current_date <= end_date
InRange(date) == date <= end_date

\* generate called on an empty roster: raise ValueError
GenerateRaise ==
    /\ pc = "new"
    /\ ~ValidRoster(doctor_ids)
    /\ pc' = "error"
    /\ UNCHANGED <<inputs, ledgers, shift_counts, last_shift_date, weekend_counts,
                   shifts, current_date, shift_idx,
                   selected_id, schedule_rows, warnings>>

\* generate called: the statements before the while loop
GenerateBegin ==
    /\ pc = "new"
    /\ ValidRoster(doctor_ids)
    /\ shifts' = ShiftsOf(shifts_per_day)
    /\ schedule_rows' = <<>>
    /\ current_date' = start_date
    /\ shift_idx' = 1
    /\ pc' = "loop"
    /\ UNCHANGED <<inputs, ledgers, shift_counts, last_shift_date, weekend_counts,
                   selected_id, warnings>>

\* The calls of calculate_doctor_score (one per position of doctor_ids)
\* that reach random.uniform: those that pass its two early returns.
DrawsJitter(date) ==
    {i \in 1..Len(doctor_ids) :
        ~IsUnavailable(doctor_ids[i], date) /\ ~AtLimit(doctor_ids[i], date)}

\* scores = [(doc_id, self.calculate_doctor_score(...)) for doc_id in self.doctor_ids],
\* jit being the values drawn by random.uniform, one per call
ScoresOf(date, shift_name, jit) ==
    [i \in 1..Len(doctor_ids) |->
        LET d == doctor_ids[i]
        IN <<d, calculate_doctor_score(d, date, shift_name,
                                       IF i \in DOMAIN jit THEN jit[i] ELSE Whole(0))>>]

\* CountShift with the month key of the first day of the run.
CountShift_startMonth(sel, date) ==
    [shift_counts EXCEPT ![sel][MonthKey(start_date)] = @ + 1]

\* self.shift_counts[selected_id][month_key] += 1
CountShift(sel, date) ==
    [shift_counts EXCEPT ![sel][MonthKey(date)] = @ + 1]

\* CountWeekend without the test of the weekday.
CountWeekend_always(sel, date) == [weekend_counts EXCEPT ![sel] = @ + 1]

\* if current_date.weekday() >= 5: self.weekend_counts[selected_id] += 1
CountWeekend(sel, date) ==
    IF Weekday(date) >= 5
    THEN [weekend_counts EXCEPT ![sel] = @ + 1]
    ELSE weekend_counts

\* The row appended to schedule_rows
Row(date, shift_name, sel) == [date |-> date, shift_name |-> shift_name, doctor_id |-> sel]

\* The warning of a forced assignment
Warning(date, shift_name) == [date |-> date, shift |-> shift_name]

\* WarningsAfter with at most one warning per date.
WarningsAfter_perDate(date, shift_name) ==
    IF \E i \in 1..Len(warnings) : warnings[i].date = date
    THEN warnings
    ELSE Append(warnings, Warning(date, shift_name))

\* st.warning(...): one more warning, for this slot
WarningsAfter(date, shift_name) == Append(warnings, Warning(date, shift_name))

\* AppendRow putting the new row first.
AppendRow_front(rows, row) == <<row>> \o rows

\* schedule_rows.append({...})
AppendRow(rows, row) == Append(rows, row)

\* `if not available`
NoneAvailable(available) == available = <<>>

\* Assign with the last-assigned date written for every candidate that was
\* scored past the two sentinels, not only for sel.
Assign_scored(sel) ==
    /\ selected_id' = sel
    /\ shift_counts' = CountShift(sel, current_date)
    /\ last_shift_date' = [d \in DOMAIN last_shift_date |->
                              IF d = sel \/ \E i \in DrawsJitter(current_date) : doctor_ids[i] = d
                              THEN current_date
                              ELSE last_shift_date[d]]
    /\ weekend_counts' = CountWeekend(sel, current_date)
    /\ schedule_rows' = AppendRow(schedule_rows, Row(current_date, shifts[shift_idx], sel))
    /\ IF shift_idx < Len(shifts)
       THEN shift_idx' = shift_idx + 1 /\ current_date' = current_date
       ELSE shift_idx' = 1 /\ current_date' = current_date + 1

\* The counters, the row and the loop position after sel was chosen
Assign(sel) ==
    /\ selected_id' = sel
    /\ shift_counts' = CountShift(sel, current_date)
    /\ last_shift_date' = [last_shift_date EXCEPT ![sel] = current_date]
    /\ weekend_counts' = CountWeekend(sel, current_date)
    /\ schedule_rows' = AppendRow(schedule_rows, Row(current_date, shifts[shift_idx], sel))
    /\ IF shift_idx < Len(shifts)
       THEN shift_idx' = shift_idx + 1 /\ current_date' = current_date
       ELSE shift_idx' = 1 /\ current_date' = current_date + 1

\* One iteration of the inner for loop, followed by the step to the next
\* day after the last shift of a day.
AssignSlot ==
    /\ pc = "loop"
    /\ InRange(current_date)
    /\ shift_idx <= Len(shifts)
    /\ \E jit \in [DrawsJitter(current_date) -> JitterDraws] :
          LET scores == ScoresOf(current_date, shifts[shift_idx], jit)
          IN IF NoneAvailable(AvailableOf(scores))
             THEN /\ warnings' = WarningsAfter(current_date, shifts[shift_idx])
                  /\ \E pick \in ForcedChoices(doctor_ids) : Assign(pick)
             ELSE /\ warnings' = warnings
                  /\ Assign(BestOf(AvailableOf(scores)))
    /\ UNCHANGED <<inputs, ledgers, shifts, pc>>

\* The while loop ends: return pd.DataFrame(schedule_rows)
GenerateReturn ==
    /\ pc = "loop"
    /\ ~InRange(current_date)
    /\ pc' = "done"
    /\ UNCHANGED <<inputs, ledgers, shift_counts, last_shift_date, weekend_counts,
                   shifts, current_date, shift_idx,
                   selected_id, schedule_rows, warnings>>

Next ==
    \/ GenerateRaise
    \/ GenerateBegin
    \/ AssignSlot
    \/ GenerateReturn

Spec == Init /\ [][Next]_vars

\* The default monthly cap of clean_doctors_data.
DefaultCap == 10

\* A monthly cap that a run of LongLen days on two shifts a day stays below.
LongCap == 20
\* The days from Saturday 31 May to Sunday 8 June 2025.
LongLen == 9

\* One staff member without absences or preferences, and runs that start on
\* Saturday 31 May 2025: up to LongLen days, on the templates of one, two and
\* four shifts a day.
InitWeekend ==
    InitWith({<<>>, <<2>>}, {DefaultCap, LongCap}, {<<>>}, 0,
             {BaseDate + 1}, 1..LongLen, {1, 2, 4})

SpecWeekend == InitWeekend /\ [][Next]_vars

\* The longest run of two staff members, in days.
PairLen == 5

\* Two staff members with the same high cap, without absences or
\* preferences, and runs that start on Saturday 31 May 2025: up to PairLen
\* days, on one or two shifts a day.
InitPair ==
    InitWith({<<>>, <<2, 1>>}, {LongCap}, {<<>>}, 0,
             {BaseDate + 1}, 1..PairLen, ShiftChoices)

SpecPair == InitPair /\ [][Next]_vars

\* Preference tables as the preference editor builds them: its "Orice"
\* entry for any shift, and the same record added twice.
EditorPrefTables ==
    {<<>>,
     <<[doctor_id |-> 2, day |-> 5, shift |-> "Orice"]>>,
     <<[doctor_id |-> 2, day |-> 5, shift |-> "Garda 24h"],
       [doctor_id |-> 2, day |-> 5, shift |-> "Garda 24h"]>>}

\* Runs from Saturday 31 May 2025 on the tables of the preference editor.
InitEditorPrefs ==
    InitWith(Rosters, 1..MaxCap, EditorPrefTables, 0,
             {BaseDate + 1}, 0..MaxLen, ShiftChoices)

SpecEditorPrefs == InitEditorPrefs /\ [][Next]_vars

\* The largest number of assignments counted by an object on which generate
\* is called again.
MaxAssigned == 4

\* The assignments counted by the object, over all staff and months.
TotalAssigned ==
    SumOver([d \in IdsOf(doctor_ids) |-> TotalShifts(d)], IdsOf(doctor_ids))

\* generate called once more on the same object, with the same arguments,
\* after it returned: the statements before the while loop.  The fields set
\* by __init__ keep the values the earlier call left.
GenerateAgain ==
    /\ pc = "done"
    /\ TotalAssigned <= MaxAssigned
    /\ shifts' = ShiftsOf(shifts_per_day)
    /\ schedule_rows' = <<>>
    /\ current_date' = start_date
    /\ shift_idx' = 1
    /\ pc' = "loop"
    /\ UNCHANGED <<inputs, ledgers, shift_counts, last_shift_date, weekend_counts,
                   selected_id, warnings>>

NextAgain ==
    \/ Next
    \/ GenerateAgain

\* Runs of up to two days from Saturday 31 May 2025, without absences or
\* preferences, on an object that may be used for several calls.
InitAgain ==
    InitWith(Rosters, 1..MaxCap, {<<>>}, 0, {BaseDate + 1}, 0..2, ShiftChoices)

SpecAgain == InitAgain /\ [][NextAgain]_vars

\* Two staff members with the default cap and up to MaxAbs absences, and
\* runs of one or two days from Saturday 31 May 2025, on the templates of
\* one, two and four shifts a day.
InitWeekendPair ==
    InitWith({<<>>, <<2, 1>>}, {DefaultCap}, {<<>>}, MaxAbs,
             {BaseDate + 1}, 1..2, {1, 2, 4})

SpecWeekendPair == InitWeekendPair /\ [][Next]_vars

\* The absence tables of a staff member away from Sunday 1 June 2025 for
\* LongLen - 3 or LongLen - 2 days in a row.
LeaveTables ==
    {{<<d, t>> : t \in Jun1..(Jun1 + n - 1)} :
        d \in {1, 2}, n \in {LongLen - 3, LongLen - 2}}

\* Two staff members with the same high cap, one of them on leave, and runs
\* of LongLen days from Saturday 31 May 2025, on one or two shifts a day.
InitLeave ==
    /\ doctor_ids \in {<<>>, <<2, 1>>}
    /\ monthly_limits = [d \in IdsOf(doctor_ids) |-> LongCap]
    /\ unavail_set \in IF doctor_ids = <<>> THEN {{}} ELSE LeaveTables
    /\ doc_preferences = [d \in IdsOf(doctor_ids) |-> <<>>]
    /\ shift_counts = [d \in IdsOf(doctor_ids) |-> [m \in MonthKeys |-> 0]]
    /\ last_shift_date = [d \in IdsOf(doctor_ids) |-> DateMin]
    /\ weekend_counts = [d \in IdsOf(doctor_ids) |-> 0]
    /\ start_date = BaseDate + 1
    /\ end_date = start_date + LongLen - 1
    /\ shifts_per_day \in ShiftChoices
    /\ shifts = <<>>
    /\ current_date = 0
    /\ shift_idx = 0
    /\ selected_id = 0
    /\ schedule_rows = <<>>
    /\ warnings = <<>>
    /\ pc = "new"
    /\ staff = StaffOf(doctor_ids)
    /\ specialty_filter = NoFilter
    /\ reservations = <<>>
    /\ priority = <<>>

SpecLeave == InitLeave /\ [][Next]_vars

\* One staff member with the default cap, without absences or preferences,
\* and runs of LongLen days from Saturday 24 May 2025, across the end of the
\* month, on the templates of one, two and four shifts a day.
InitMonthEnd ==
    InitWith({<<>>, <<2>>}, {DefaultCap}, {<<>>}, 0,
             {BaseDate - 6}, {LongLen}, {1, 2, 4})

SpecMonthEnd == InitMonthEnd /\ [][Next]_vars

-----------------------------------------------------------------------------
(* Reservation resolver *)

\* Largest number of reservations of a run.
MaxClaims == 4
\* Largest score of the priority ledger before a run.
MaxPrio == 3

\* What the resolver never touches: the scheduler and its run.
engine == <<inputs, shift_counts, last_shift_date, weekend_counts, shifts,
            current_date, shift_idx, selected_id, schedule_rows,
            warnings, pc>>

\* The month key that follows m.
NextMonthKey(m) == IF m[2] = 12 THEN <<m[1] + 1, 1>> ELSE <<m[1], m[2] + 1>>

\* The ledger score of staff member d for month m: 0 without an entry.
PriorityOf(ledger, d, m) ==
    IF <<d, m>> \in DOMAIN ledger THEN ledger[<<d, m>>] ELSE 0

\* The slots that have a reservation.
ClaimedSlots ==
    {<<reservations[k].date, reservations[k].shift>> : k \in 1..Len(reservations)}

\* The positions of the pending reservations of a slot.
PendingOn(date, shift_name) ==
    {k \in 1..Len(reservations) :
        /\ reservations[k].date = date
        /\ reservations[k].shift = shift_name
        /\ reservations[k].status = "pending"}

\* TopClaims with the least score for the greatest.
TopClaims_lowest(claims, m) ==
    {k \in claims : \A l \in claims :
        PriorityOf(priority, reservations[k].doctor_id, m)
            <= PriorityOf(priority, reservations[l].doctor_id, m)}

\* The claims whose claimant has the greatest ledger score for month m.
TopClaims(claims, m) ==
    {k \in claims : \A l \in claims :
        PriorityOf(priority, reservations[k].doctor_id, m)
            >= PriorityOf(priority, reservations[l].doctor_id, m)}

\* The reservation table after claim w won over the other claims.
Resolved(claims, w) ==
    [k \in 1..Len(reservations) |->
        IF k \in claims
        THEN [reservations[k] EXCEPT !.status = IF k = w THEN "approved" ELSE "rejected"]
        ELSE reservations[k]]

\* The month for which the losers of a slot of month m gain priority.
EscalationMonth(m) == NextMonthKey(m)

\* Escalated with the score of a loser set to 1, whatever it was.
Escalated_toOne(ledger, losers, m) ==
    [e \in DOMAIN ledger \cup {<<d, m>> : d \in losers} |->
        IF e[1] \in losers /\ e[2] = m THEN 1 ELSE ledger[e]]

\* The ledger after each loser gained 1 for month m.
Escalated(ledger, losers, m) ==
    [e \in DOMAIN ledger \cup {<<d, m>> : d \in losers} |->
        IF e[1] \in losers /\ e[2] = m
        THEN PriorityOf(ledger, e[1], m) + 1
        ELSE ledger[e]]

\* A slot with a single pending claim: the claim is approved.
ResolveSingle ==
    /\ \E slot \in ClaimedSlots :
          LET claims == PendingOn(slot[1], slot[2])
          IN /\ Cardinality(claims) = 1
             /\ \E w \in claims : reservations' = Resolved(claims, w)
    /\ UNCHANGED <<engine, priority>>

\* A slot with several pending claims: a claim of greatest current-month
\* score is approved, picked at random among those tied; the others are
\* rejected and their claimants gain 1 for the next month.
ResolveContested ==
    /\ \E slot \in ClaimedSlots :
          LET claims == PendingOn(slot[1], slot[2])
              m == MonthKey(slot[1])
          IN /\ Cardinality(claims) > 1
             /\ \E w \in TopClaims(claims, m) :
                   /\ reservations' = Resolved(claims, w)
                   /\ priority' = Escalated(priority,
                                            {reservations[k].doctor_id : k \in claims \ {w}},
                                            EscalationMonth(m))
    /\ UNCHANGED engine

NextResolve ==
    \/ ResolveSingle
    \/ ResolveContested

\* The staff list of the resolver's runs.
Claimants == <<2, 1, 3>>

\* A set of records as a list.
RECURSIVE ListOf(_)
ListOf(S) ==
    IF S = {} THEN <<>>
    ELSE LET x == CHOOSE x \in S : TRUE IN <<x>> \o ListOf(S \ {x})

\* The reservation tables before a run: at most MaxClaims pending claims, at
\* most one per staff member and slot.
ClaimTables ==
    LET all == {[doctor_id |-> d, date |-> t, shift |-> "Garda 24h", status |-> "pending"] :
                   d \in IdsOf(Claimants), t \in Dates}
    IN {ListOf(S) : S \in {T \in SUBSET all : Cardinality(T) <= MaxClaims}}

\* The ledgers before a run: scores for May 2025 of some of the staff.
Ledgers ==
    UNION {[S \X {<<Year, 5>>} -> 1..MaxPrio] : S \in SUBSET IdsOf(Claimants)}

InitResolve ==
    /\ InitScheduler({Claimants}, {DefaultCap}, {<<>>}, 0, {BaseDate + 1}, {2}, {1})
    /\ staff = StaffOf(doctor_ids)
    /\ specialty_filter = NoFilter
    /\ reservations \in ClaimTables
    /\ priority \in Ledgers

SpecResolve == InitResolve /\ [][NextResolve]_vars

\* The staff list of the runs in which the same claimants meet again.
Rivals == <<2, 1>>

\* The dates of their claims: two days of May 2025 and the first of June.
RivalDates == BaseDate..(BaseDate + 2)

\* Their reservation tables before a run: at most MaxClaims pending claims,
\* at most one per staff member and slot, so that a staff member can lose
\* two slots of May, or a slot of May and then meet the winner again in June.
RivalTables ==
    LET all == {[doctor_id |-> d, date |-> t, shift |-> "Garda 24h", status |-> "pending"] :
                   d \in IdsOf(Rivals), t \in RivalDates}
    IN {ListOf(S) : S \in {T \in SUBSET all : Cardinality(T) <= MaxClaims}}

\* The ledgers before such a run: scores for May and for June 2025 of some of
\* the staff, so that a loss finds a score to raise.
RivalLedgers ==
    UNION {[E -> 1..MaxPrio] :
              E \in SUBSET (IdsOf(Rivals) \X {<<Year, 5>>, <<Year, 6>>})}

InitLedger ==
    /\ InitScheduler({Rivals}, {DefaultCap}, {<<>>}, 0, {BaseDate}, {3}, {1})
    /\ staff = StaffOf(doctor_ids)
    /\ specialty_filter = NoFilter
    /\ reservations \in RivalTables
    /\ priority \in RivalLedgers

SpecLedger == InitLedger /\ [][NextResolve]_vars

-----------------------------------------------------------------------------
(* Specialty filter *)

\* FilterBySpecialty keeping every row.
FilterBySpecialty_all(table, tag) == table

\* The rows of the staff table that the filter keeps: all of them without a
\* filter, those of the given specialty otherwise.
FilterBySpecialty(table, tag) ==
    IF tag = NoFilter THEN table
    ELSE SelectSeq(table, LAMBDA row : row.speciality = tag)

\* doctors[COL_ID].tolist()
IdsOfTable(table) == [i \in 1..Len(table) |-> table[i].doctor_id]

\* The staff tables of the filtered runs.
StaffTables ==
    {<<>>,
     <<[doctor_id |-> 2, speciality |-> "ATI"]>>,
     <<[doctor_id |-> 2, speciality |-> "ATI"], [doctor_id |-> 1, speciality |-> "ATI"]>>,
     <<[doctor_id |-> 2, speciality |-> "ATI"], [doctor_id |-> 1, speciality |-> "Chirurgie"]>>}

\* The filters of the filtered runs.
SpecialtyFilters == {NoFilter, "ATI", "Chirurgie", "Pediatrie"}

\* A scheduler built on the rows that the filter keeps.
InitSpecialty ==
    /\ staff \in StaffTables
    /\ specialty_filter \in SpecialtyFilters
    /\ InitScheduler({IdsOfTable(FilterBySpecialty(staff, specialty_filter))},
                     1..MaxCap, {<<>>}, 1, {BaseDate + 1}, 0..2, ShiftChoices)
    /\ reservations = <<>>
    /\ priority = <<>>

SpecSpecialty == InitSpecialty /\ [][Next]_vars

-----------------------------------------------------------------------------
(* Vocabulary of the properties *)

Ids == IdsOf(doctor_ids)

\* Neither absent on the date nor at the monthly cap of the date's month.
Eligible(d, date) == ~IsUnavailable(d, date) /\ ~AtLimit(d, date)

\* A step that processes one slot (the slot of the unprimed state).
SlotStep == pc = "loop" /\ Len(schedule_rows') = Len(schedule_rows) + 1

\* The draws of random.uniform a slot on the date can make, one per call.
DrawsOf(date) == [DrawsJitter(date) -> JitterDraws]

\* The list scores of the slot about to be processed, under the draws jit.
SlotScores(jit) == ScoresOf(current_date, shifts[shift_idx], jit)

\* The step is what the slot does when the draws are jit: with nobody past
\* the filter one more warning, for this slot; otherwise no warning and the
\* slot goes to the first of the sorted list.
StepUnder(jit) ==
    IF AvailableOf(SlotScores(jit)) = <<>>
    THEN warnings' = Append(warnings, [date |-> current_date, shift |-> shifts[shift_idx]])
    ELSE /\ warnings' = warnings
         /\ selected_id' = BestOf(AvailableOf(SlotScores(jit)))

\* The positions of the rows of staff member d dated in month m.
RowsIn(d, m) ==
    {k \in 1..Len(schedule_rows) :
        schedule_rows[k].doctor_id = d /\ MonthKey(schedule_rows[k].date) = m}

\* The positions of the rows of a slot.
RowsOfSlot(date, shift_name) ==
    {k \in 1..Len(schedule_rows) :
        schedule_rows[k].date = date /\ schedule_rows[k].shift_name = shift_name}

\* The staff member assigned to the slot of the i-th warning.
ForcedDoctor(i) ==
    LET k == CHOOSE k \in RowsOfSlot(warnings[i].date, warnings[i].shift) : TRUE
    IN schedule_rows[k].doctor_id

\* The member of the staff list that follows d in cyclic order.
CyclicNext(d) ==
    LET i == CHOOSE i \in 1..Len(doctor_ids) : doctor_ids[i] = d
    IN doctor_ids[(i % Len(doctor_ids)) + 1]

-----------------------------------------------------------------------------
(* Properties *)

\* C1: a run on a non-empty roster with start <= end returns exactly
\* (days in range) x (labels of the template) rows, exactly one per
\* (date, label) slot, the slots without an eligible staff member included.
C1_OneRowPerSlot ==
    (pc = "done" /\ start_date <= end_date) =>
        /\ Len(shifts) = shifts_per_day
        /\ Len(schedule_rows) = (end_date - start_date + 1) * shifts_per_day
        /\ \A d \in start_date..end_date : \A i \in 1..Len(shifts) :
              Cardinality(RowsOfSlot(d, shifts[i])) = 1

\* A finished run of three days and two labels with a forced slot.
C1_Witness ==
    /\ pc = "done"
    /\ Len(schedule_rows) = 6
    /\ warnings # <<>>

\* C2: after every slot, a monthly counter above the cap of its staff member
\* comes with a forced-assignment warning for a slot of that month that was
\* assigned to that staff member.
C2_CapUnlessForced ==
    \A d \in Ids : \A m \in MonthKeys :
        shift_counts[d][m] > monthly_limits[d] =>
            \E i \in 1..Len(warnings) :
                /\ MonthKey(warnings[i].date) = m
                /\ ForcedDoctor(i) = d

\* A staff member above the cap in some month.
C2_Witness ==
    \E d \in Ids : \E m \in MonthKeys : shift_counts[d][m] > monthly_limits[d]

\* C3: in a slot with a staff member who is neither absent nor at the cap,
\* the slot goes to such a staff member and no warning is recorded.
C3_ForcedOnlyWhenNoneEligible ==
    [][(SlotStep /\ \E d \in Ids : Eligible(d, current_date)) =>
          /\ warnings' = warnings
          /\ Eligible(selected_id', current_date)]_vars

\* C4: a staff member is kept by the availability filter, for every value of
\* the jitter, exactly when neither absent on the date nor at the cap.
C4_AvailableIffEligible ==
    (pc = "loop" /\ InRange(current_date)) =>
        \A d \in Ids : \A j \in JitterDraws :
            PassesFilter(calculate_doctor_score(d, current_date, shifts[shift_idx], j))
                <=> Eligible(d, current_date)

\* C5 as stated: consecutive forced slots go to consecutive members of the
\* staff list in cyclic order.
C5_ForcedCyclic ==
    \A i \in 1..(Len(warnings) - 1) : ForcedDoctor(i + 1) = CyclicNext(ForcedDoctor(i))

\* C5 as amended: a forced slot goes to a member of the staff list, absent or
\* at the cap as they may be, and the assignment is counted and recorded for
\* that member.
C5_ForcedAnyMember ==
    [][(SlotStep /\ warnings' # warnings) =>
          /\ selected_id' \in Ids
          /\ schedule_rows'[Len(schedule_rows')].doctor_id = selected_id'
          /\ shift_counts'[selected_id'][MonthKey(current_date)]
                = shift_counts[selected_id'][MonthKey(current_date)] + 1]_vars

\* Two consecutive forced slots of a roster of two that went to the same
\* staff member.
C5_Witness ==
    /\ Len(doctor_ids) = 2
    /\ \E i \in 1..(Len(warnings) - 1) : ForcedDoctor(i + 1) = ForcedDoctor(i)

\* C6 as stated: there are as many warnings as dates with a forced slot.
C6_OneWarningPerDate ==
    Len(warnings) = Cardinality({warnings[i].date : i \in 1..Len(warnings)})

\* C6 as amended: a slot adds one warning, for its date and label, exactly
\* when no staff member passes the availability filter, whatever was warned
\* about the date before; a single staff member absent on both days of a
\* two-day, one-label run gives 2 rows and 2 warnings.
C6_OneWarningPerForcedSlot ==
    [][/\ SlotStep =>
            \E jit \in DrawsOf(current_date) : StepUnder(jit)
       /\ (/\ pc' = "done"
           /\ Len(doctor_ids) = 1
           /\ shifts_per_day = 1
           /\ end_date = start_date + 1
           /\ \A d \in start_date..end_date : IsUnavailable(doctor_ids[1], d))
            => Len(schedule_rows') = 2 /\ Len(warnings') = 2]_vars

\* Two warnings for the same date.
C6_Witness ==
    \E i, j \in 1..Len(warnings) : i < j /\ warnings[i].date = warnings[j].date

\* C7: a run on an empty roster raises before any slot: no row, no warning,
\* no counter changed; and a run raises on no other roster.
C7_EmptyRosterRaises ==
    /\ doctor_ids = <<>> => pc \in {"new", "error"}
    /\ pc = "error" =>
          /\ doctor_ids = <<>>
          /\ schedule_rows = <<>>
          /\ warnings = <<>>
          /\ \A d \in Ids :
                /\ \A m \in MonthKeys : shift_counts[d][m] = 0
                /\ last_shift_date[d] = DateMin
                /\ weekend_counts[d] = 0

\* A run that raised.
C7_Witness == pc = "error"

\* C8: the rows are in generation order: the k-th row is the k-th slot, by
\* date from the start date and, within a date, by position in the template.
C8_GenerationOrder ==
    /\ \A k \in 1..Len(schedule_rows) :
          /\ schedule_rows[k].date = start_date + ((k - 1) \div Len(shifts))
          /\ schedule_rows[k].shift_name = shifts[((k - 1) % Len(shifts)) + 1]
    /\ \A k, l \in 1..Len(schedule_rows) :
          k < l => schedule_rows[k].date <= schedule_rows[l].date

\* A finished run of several days and two labels a day.
C8_Witness ==
    /\ pc = "done"
    /\ shifts_per_day = 2
    /\ Len(schedule_rows) >= 4

\* C10: after every slot, the counter of a staff member for a month is the
\* number of rows emitted so far for that staff member in that month, and
\* the counters add up to the number of rows.
C10_CounterIsRowCount ==
    /\ \A d \in Ids : \A m \in MonthKeys :
          shift_counts[d][m] = Cardinality(RowsIn(d, m))
    /\ SumOver([d \in Ids |-> TotalShifts(d)], Ids) = Len(schedule_rows)

\* A run with rows in both months, one of them forced.
C10_Witness ==
    /\ warnings # <<>>
    /\ \E k, l \in 1..Len(schedule_rows) :
          MonthKey(schedule_rows[k].date) # MonthKey(schedule_rows[l].date)

\* The number of slots of the run dated in month m.
SlotsInMonth(m) ==
    Cardinality({d \in start_date..end_date : MonthKey(d) = m}) * shifts_per_day

\* The sum of the monthly caps of the roster.
SumOfCaps == SumOver(monthly_limits, Ids)

\* C11: with no absence and, in every month, no more slots than the sum of
\* the caps, no assignment is forced and no monthly counter exceeds its cap.
C11_NoForcedWithinCaps ==
    (/\ unavail_set = {}
     /\ \A m \in MonthKeys : SlotsInMonth(m) <= SumOfCaps) =>
        /\ warnings = <<>>
        /\ \A d \in Ids : \A m \in MonthKeys : shift_counts[d][m] <= monthly_limits[d]

\* The claimant of reservation k.
Claimant(k) == reservations[k].doctor_id

\* The month key of the slot of reservation k.
ClaimMonth(k) == MonthKey(reservations[k].date)

\* Reservation k is pending and the step settles it.
Settled(k) == reservations[k].status = "pending" /\ reservations'[k].status # "pending"

\* C12: a step of the resolver on a slot with pending claims leaves exactly
\* one of them approved and every other one rejected, none pending; a single
\* claim is approved; the approved claimant has the greatest ledger score of
\* the slot's month among the claimants, an absent score counting 0.
C12_OneWinnerPerSlot ==
    [][\A k \in 1..Len(reservations) : Settled(k) =>
          LET claims == PendingOn(reservations[k].date, reservations[k].shift)
              won == {l \in claims : reservations'[l].status = "approved"}
          IN /\ Cardinality(won) = 1
             /\ \A l \in claims \ won : reservations'[l].status = "rejected"
             /\ Cardinality(claims) = 1 => won = claims
             /\ \A w \in won : \A l \in claims :
                   PriorityOf(priority, Claimant(w), ClaimMonth(k))
                       >= PriorityOf(priority, Claimant(l), ClaimMonth(k))]_vars

\* A slot claimed by three, settled: one approved and two rejected, the
\* winner having had a ledger entry and a loser none.
C12_Witness ==
    \E k, l, n \in 1..Len(reservations) :
        /\ l # n
        /\ reservations[k].date = reservations[l].date
        /\ reservations[k].date = reservations[n].date
        /\ reservations[k].status = "approved"
        /\ reservations[l].status = "rejected"
        /\ reservations[n].status = "rejected"
        /\ <<Claimant(k), ClaimMonth(k)>> \in DOMAIN priority
        /\ <<Claimant(l), ClaimMonth(l)>> \notin DOMAIN priority

\* The claims of staff member d on slots of month m that were rejected.
LostIn(d, m) ==
    {k \in 1..Len(reservations) :
        /\ Claimant(k) = d
        /\ ClaimMonth(k) = m
        /\ reservations[k].status = "rejected"}

\* C13: a claim rejected by a step raises the ledger score of its claimant
\* for the month after the slot's month by exactly 1, whether the claimant
\* had a score for that month or not; no step lowers or removes a ledger
\* score, and a step changes no other score; so the score of a staff member
\* for a month is at least the number of claims they lost in the month
\* before, and rises with every loss.
C13_LosersEscalated ==
    [][/\ \A k \in 1..Len(reservations) :
             (Settled(k) /\ reservations'[k].status = "rejected") =>
                 PriorityOf(priority', Claimant(k), NextMonthKey(ClaimMonth(k)))
                     = PriorityOf(priority, Claimant(k), NextMonthKey(ClaimMonth(k))) + 1
       /\ \A e \in DOMAIN priority :
             e \in DOMAIN priority' /\ priority'[e] >= priority[e]
       /\ \A e \in DOMAIN priority' :
             \/ PriorityOf(priority', e[1], e[2]) = PriorityOf(priority, e[1], e[2])
             \/ \E k \in 1..Len(reservations) :
                   /\ Settled(k)
                   /\ reservations'[k].status = "rejected"
                   /\ Claimant(k) = e[1]
                   /\ NextMonthKey(ClaimMonth(k)) = e[2]
       /\ \A d \in IdsOf(doctor_ids) : \A t \in RivalDates :
             PriorityOf(priority', d, NextMonthKey(MonthKey(t)))
                 >= Cardinality(LostIn(d, MonthKey(t))')]_vars

\* A staff member who lost two slots of May to the same rival, with a score
\* for June that was MaxPrio before the run and is MaxPrio + 2 after the two
\* losses, while the rival's score for June is what it was, none.
C13_Witness ==
    \E d, w \in IdsOf(doctor_ids) :
        /\ Cardinality(LostIn(d, <<Year, 5>>)) = 2
        /\ PriorityOf(priority, d, <<Year, 6>>) = MaxPrio + 2
        /\ LostIn(w, <<Year, 5>>) = {}
        /\ PriorityOf(priority, w, <<Year, 6>>) = 0
        /\ \A k \in LostIn(d, <<Year, 5>>) :
              \E l \in 1..Len(reservations) :
                  /\ Claimant(l) = w
                  /\ reservations[l].date = reservations[k].date
                  /\ reservations[l].status = "approved"

\* The staff members of the table with the given specialty.
WithSpecialty(tag) ==
    {staff[i].doctor_id : i \in {j \in 1..Len(staff) : staff[j].speciality = tag}}

\* C14: with a specialty filter that no staff member matches, the run raises
\* before any work and yields no row and no warning; with a filter that some
\* staff match, every row, forced or not, names a staff member of that
\* specialty.
C14_SpecialtyFilter ==
    specialty_filter # NoFilter =>
        /\ WithSpecialty(specialty_filter) = {} =>
              /\ pc \in {"new", "error"}
              /\ schedule_rows = <<>>
              /\ warnings = <<>>
        /\ \A k \in 1..Len(schedule_rows) :
              schedule_rows[k].doctor_id \in WithSpecialty(specialty_filter)

\* A run that raised on a staff table of two, none matching the filter.
C14_Witness ==
    /\ pc = "error"
    /\ Len(staff) = 2
    /\ specialty_filter # NoFilter

\* The number of rows of staff member d.
RowsOf(d) == Cardinality({k \in 1..Len(schedule_rows) : schedule_rows[k].doctor_id = d})

\* C15 as stated: in a run with uniform caps, no absence and no preference
\* in which no counter has reached its cap, the totals of any two staff
\* members differ by at most 2 after every slot, whatever the jitter.
C15_FairnessBound ==
    (/\ \A a, b \in Ids : monthly_limits[a] = monthly_limits[b]
     /\ unavail_set = {}
     /\ \A d \in Ids : doc_preferences[d] = <<>>
     /\ \A d \in Ids : \A m \in MonthKeys : shift_counts[d][m] < monthly_limits[d]) =>
        \A a, b \in Ids : TotalShifts(a) - TotalShifts(b) <= 2

\* C15 as amended: a slot that is not forced goes to a staff member a with
\* more assignments than an eligible staff member b of the same rest,
\* weekend and preference terms only if the gap of the load terms,
\* 100/(tb + 1) - 100/(ta + 1), is at most 10, the width of the jitter; the
\* difference of the totals itself is not bounded by 2.
C15_LoadGapWithinJitter ==
    [][(SlotStep /\ warnings' = warnings) =>
          \A b \in Ids :
              (/\ Eligible(b, current_date)
               /\ RowsOf(b) < RowsOf(selected_id')
               /\ RestTerm(b, current_date) = RestTerm(selected_id', current_date)
               /\ WeekendTerm(b, current_date) = WeekendTerm(selected_id', current_date)
               /\ PrefTerm(b, current_date, shifts[shift_idx])
                     = PrefTerm(selected_id', current_date, shifts[shift_idx])) =>
                  LoadBonus * (RowsOf(selected_id') - RowsOf(b))
                      <= 2 * Jitter * (RowsOf(selected_id') + 1) * (RowsOf(b) + 1)]_vars

\* Totals of 6 and 3 without a forced slot, with caps of 20.
C15_Witness ==
    /\ warnings = <<>>
    /\ \E a, b \in Ids :
          /\ monthly_limits[a] = monthly_limits[b]
          /\ TotalShifts(a) = 6
          /\ TotalShifts(b) = 3
          /\ \A m \in MonthKeys : shift_counts[a][m] < monthly_limits[a]

\* The score of staff member d as calculate_doctor_score computes it when
\* the preference records of d are prefs.
ScoreWithPrefs(d, date, shift_name, jitter, prefs) ==
    IF IsUnavailable(d, date) \/ AtLimit(d, date)
    THEN calculate_doctor_score(d, date, shift_name, jitter)
    ELSE ScoreTerms(TotalShifts(d), RestTerm(d, date), prefs, date, shift_name,
                    WeekendTerm(d, date), jitter)

\* C16: for every slot, staff member and jitter, the availability filter
\* keeps the staff member with a preference record for the slot exactly when
\* it keeps them with no preference record, counters and absences being the
\* same.
C16_PreferencesNeverExclude ==
    (pc = "loop" /\ InRange(current_date)) =>
        \A d \in Ids : \A j \in JitterDraws :
            PassesFilter(ScoreWithPrefs(d, current_date, shifts[shift_idx], j,
                            <<[day |-> Weekday(current_date), shift |-> shifts[shift_idx]]>>))
                <=> PassesFilter(ScoreWithPrefs(d, current_date, shifts[shift_idx], j, <<>>))

\* Staff member d has a preference record for the weekday of the date with
\* the label of the slot or the editor's value for any shift.
HasPreference(d, date, shift_name) ==
    \E i \in 1..Len(doc_preferences[d]) :
        /\ doc_preferences[d][i].day = Weekday(date)
        /\ doc_preferences[d][i].shift \in {shift_name, "Orice"}

\* C17: the preference term of a slot is 30 for a staff member with at least
\* one record of the date's weekday and of the slot's label or of the
\* editor's value for any shift, whatever the number of such records, and 0
\* for the others.
C17_PreferenceTerm ==
    (pc = "loop" /\ InRange(current_date)) =>
        \A d \in Ids :
            PrefTerm(d, current_date, shifts[shift_idx])
                = IF HasPreference(d, current_date, shifts[shift_idx]) THEN PrefBonus ELSE 0

\* C18: a run starts from counters, last-assigned dates and weekend counters
\* that no earlier run has touched, on the same object too; and a run that
\* returned has a row for every slot, a run that raised has none.
C18_RunsStartFresh ==
    /\ (pc = "loop" /\ schedule_rows = <<>>) =>
          \A d \in Ids :
              /\ \A m \in MonthKeys : shift_counts[d][m] = 0
              /\ last_shift_date[d] = DateMin
              /\ weekend_counts[d] = 0
    /\ pc = "done" =>
          Len(schedule_rows) = (end_date - start_date + 1) * shifts_per_day
    /\ pc = "error" => schedule_rows = <<>>

\* The score of staff member d in the list of scores sc.
ScoreIn(sc, d) ==
    LET i == CHOOSE i \in 1..Len(sc) : sc[i][1] = d IN sc[i][2]

\* C19: a slot with a staff member who is neither absent nor at the cap goes
\* to such a staff member, and none of them has a greater score for the slot.
C19_BestEligibleSelected ==
    [][(SlotStep /\ \E d \in Ids : Eligible(d, current_date)) =>
          \A jit \in DrawsOf(current_date) : StepUnder(jit) =>
              /\ Eligible(selected_id', current_date)
              /\ \A d \in Ids : Eligible(d, current_date) =>
                    ~Greater(ScoreIn(SlotScores(jit), d),
                             ScoreIn(SlotScores(jit), selected_id'))]_vars

\* The staff members that pass the availability filter with a score that
\* none of the others exceeds.
TopTied(sc) ==
    LET available == AvailableOf(sc)
    IN {available[i][1] : i \in {j \in 1..Len(available) :
            \A k \in 1..Len(available) : ~Greater(available[k][2], available[j][2])}}

\* The list scores of the slot after the one a step processes, under the
\* draws jit: calculate_doctor_score on the counters, the date and the label
\* the step leaves; a draw at a position that calls no random.uniform is
\* not read.
ScoresAfter(jit) ==
    [i \in 1..Len(doctor_ids) |->
        LET d == doctor_ids[i]
        IN <<d, IF IsUnavailable(d, current_date)' THEN Whole(ScoreUnavailable)
                ELSE IF AtLimit(d, current_date)' THEN Whole(ScoreOverLimit)
                ELSE ScoreTerms(TotalShifts(d)', RestTerm(d, current_date)',
                                doc_preferences[d], current_date', shifts[shift_idx'],
                                WeekendTerm(d, current_date)',
                                IF i \in DOMAIN jit THEN jit[i] ELSE Whole(0))>>]

\* C20 as stated: when the same staff members are tied at the top score in
\* two successive slots, the two slots do not go to the same staff member.
C20_TiesRotate ==
    [][(SlotStep /\ pc' = "loop" /\ InRange(current_date')) =>
          \A jit \in DrawsOf(current_date) :
          \A after \in [1..Len(doctor_ids) -> JitterDraws] :
              (/\ StepUnder(jit)
               /\ Cardinality(TopTied(SlotScores(jit))) > 1
               /\ TopTied(ScoresAfter(after)) = TopTied(SlotScores(jit))) =>
                  BestOf(AvailableOf(ScoresAfter(after))) # selected_id']_vars

\* The float after x, for a positive x that is not the last before a power
\* of two.
NextUp(x) == [x EXCEPT !.lo = @ + TopBit(x.int)]

\* The score of a staff member with two assignments, rested, on a weekday,
\* whose draw is -4.0: 49.333333333333336, which a staff member with three
\* assignments reaches with another draw.
Score49 == ScoreTerms(2, RestBonus, <<>>, BaseDate, "", 0, Whole(1 - Jitter))

\* Scores to build lists from: the two sentinels, the threshold of the
\* filter (dropped) and a score above it, and three scores of which two are
\* neighbours as floats.  sorted and the filter read the scores by comparing
\* them, so a list of any scores is sorted like the list of these scores
\* that compares in the same way.
TieScores ==
    {Whole(ScoreUnavailable), Whole(ScoreOverLimit), Whole(AvailableAbove),
     Whole(AvailableAbove + 1), Whole(RestBonus), Score49, NextUp(Score49)}

\* A staff list of three.
TieRoster == <<2, 1, 3>>

\* The lists scores of a slot with the staff list ids: a score for each
\* staff member, in staff-list order.
TiedLists(ids) ==
    {[i \in 1..Len(ids) |-> <<ids[i], v[i]>>] : v \in [1..Len(ids) -> TieScores]}

\* The first of the sorted list of those that pass the filter is, among
\* those tied at the top, the one earliest in the staff list ids.
EarliestOfTopFirst(ids, sc) ==
    AvailableOf(sc) # <<>> =>
        \E i \in 1..Len(ids) :
            /\ ids[i] \in TopTied(sc)
            /\ \A k \in 1..(i - 1) : ids[k] \notin TopTied(sc)
            /\ BestOf(AvailableOf(sc)) = ids[i]

\* Every list of scores of the staff list of three has the earliest of those
\* tied at the top first when sorted.
TiesOfThree ==
    \A sc \in TiedLists(TieRoster) : EarliestOfTopFirst(TieRoster, sc)

\* C20 as amended: there is no rotating pointer; the candidates are scored in
\* staff-list order and sorted stably, so a slot with several staff members
\* tied at the top score goes to the one that is earliest in the staff list,
\* in every slot: a slot that is not forced goes to the first of the sorted
\* list, and whatever the scores, the first of the sorted list is the
\* earliest of the staff list among those tied at the top.
C20_TieGoesToEarliest ==
    [][SlotStep =>
          /\ \E jit \in DrawsOf(current_date) : StepUnder(jit)
          /\ \A jit \in DrawsOf(current_date) :
                EarliestOfTopFirst(doctor_ids, SlotScores(jit))
          /\ \A sc \in TiedLists(doctor_ids) : EarliestOfTopFirst(doctor_ids, sc)
          /\ TiesOfThree]_vars

\* A slot after the fourth for which the two staff members have the same
\* score before the draw is added, so that they tie whenever their draws
\* are equal, the slot before having gone to the earlier of the two.
C20_Witness ==
    /\ pc = "loop"
    /\ InRange(current_date)
    /\ Len(schedule_rows) > 4
    /\ Len(doctor_ids) = 2
    /\ selected_id = doctor_ids[1]
    /\ \A i \in 1..2 : Eligible(doctor_ids[i], current_date)
    /\ calculate_doctor_score(doctor_ids[1], current_date, shifts[shift_idx], Whole(0))
           = calculate_doctor_score(doctor_ids[2], current_date, shifts[shift_idx], Whole(0))

\* C21: a slot step, forced or not, that assigns staff member s on date d
\* adds 1 to the counter of s for the month of d, sets the last-assigned
\* date of s to d and adds 1 to the weekend counter of s exactly when d is a
\* Saturday or a Sunday; the counters of s for the other months and the
\* counters, last-assigned dates and weekend counters of the other staff
\* members keep their values.
C21_AssignmentFrame ==
    [][SlotStep =>
          LET s == schedule_rows'[Len(schedule_rows')].doctor_id
              d == schedule_rows'[Len(schedule_rows')].date
          IN /\ s = selected_id'
             /\ d = current_date
             /\ shift_counts'[s][MonthKey(d)] = shift_counts[s][MonthKey(d)] + 1
             /\ \A m \in MonthKeys \ {MonthKey(d)} : shift_counts'[s][m] = shift_counts[s][m]
             /\ last_shift_date'[s] = d
             /\ weekend_counts'[s] - weekend_counts[s] \in {0, 1}
             /\ weekend_counts'[s] = weekend_counts[s] + 1 <=> Weekday(d) \in {5, 6}
             /\ \A o \in Ids \ {s} :
                   /\ shift_counts'[o] = shift_counts[o]
                   /\ last_shift_date'[o] = last_shift_date[o]
                   /\ weekend_counts'[o] = weekend_counts[o]]_vars

\* A roster of two after a forced slot, with a staff member assigned on a
\* weekend day and on a weekday, in both months.
C21_Witness ==
    /\ Len(doctor_ids) = 2
    /\ warnings # <<>>
    /\ \E d \in Ids :
          /\ weekend_counts[d] >= 1
          /\ TotalShifts(d) > weekend_counts[d]
          /\ \A m \in MonthKeys : shift_counts[d][m] >= 1

\* The date of the latest row of staff member d, who has a row.
LastRowDate(d) ==
    LET k == CHOOSE k \in 1..Len(schedule_rows) :
                 /\ schedule_rows[k].doctor_id = d
                 /\ \A l \in (k + 1)..Len(schedule_rows) : schedule_rows[l].doctor_id # d
    IN schedule_rows[k].date

\* The rest term the claim gives for a gap in days.
RestOfGap(gap) == IF gap < 2 THEN -50 ELSE IF gap > 7 THEN 20 ELSE 0

\* C23: for a staff member who is neither absent nor at the cap and has been
\* assigned before, the score of the slot without jitter is the load term
\* plus the preference and weekend terms plus -50 when the slot's date is
\* less than 2 days after the date of their latest assignment (0 days for a
\* second slot of the same date), +20 when it is more than 7 days after,
\* and 0 in between.
C23_RestTerm ==
    (pc = "loop" /\ InRange(current_date)) =>
        \A d \in Ids : (Eligible(d, current_date) /\ RowsOf(d) > 0) =>
            calculate_doctor_score(d, current_date, shifts[shift_idx], Whole(0))
                = ScoreTerms(RowsOf(d), RestOfGap(current_date - LastRowDate(d)),
                             doc_preferences[d], current_date, shifts[shift_idx],
                             WeekendTerm(d, current_date), Whole(0))

\* A slot for which a staff member is eligible more than 7 days after their
\* latest assignment, while the other one was assigned the day before.
C23_Witness ==
    /\ pc = "loop"
    /\ InRange(current_date)
    /\ \E d, o \in Ids :
          /\ Eligible(d, current_date)
          /\ RowsOf(d) > 0
          /\ current_date - LastRowDate(d) > 7
          /\ RowsOf(o) > 0
          /\ current_date - LastRowDate(o) = 1

\* C24: a staff member whose counter for the month of the slot has reached
\* the cap is dropped by the availability filter, in every slot of that
\* month; and at the first slot of June 2025 of a run that began in May, a
\* staff member whose counter for May reached a cap of at least 1 has a
\* counter of 0 for June and, unless absent, is kept by the filter again.
C24_CapResetsAtMonthBoundary ==
    (pc = "loop" /\ InRange(current_date)) =>
        \A d \in Ids : \A j \in JitterDraws :
            LET kept == PassesFilter(calculate_doctor_score(d, current_date,
                                                            shifts[shift_idx], j))
            IN /\ shift_counts[d][MonthKey(current_date)] >= monthly_limits[d] => ~kept
               /\ (/\ current_date = Jun1
                   /\ shift_idx = 1
                   /\ start_date < Jun1
                   /\ monthly_limits[d] >= 1
                   /\ shift_counts[d][<<Year, 5>>] >= monthly_limits[d]) =>
                      /\ shift_counts[d][<<Year, 6>>] = 0
                      /\ ~IsUnavailable(d, current_date) => kept

\* The number of rows of staff member d dated on a Saturday or a Sunday.
WeekendRows(d) ==
    Cardinality({k \in 1..Len(schedule_rows) :
                    /\ schedule_rows[k].doctor_id = d
                    /\ Weekday(schedule_rows[k].date) >= 5})

\* The number of rows for whose slot staff member d was scored past the
\* absence test (so that the counters of d were read) and not selected.
ScoredNotSelected(d) ==
    Cardinality({k \in 1..Len(schedule_rows) :
                    /\ schedule_rows[k].doctor_id # d
                    /\ ~IsUnavailable(d, schedule_rows[k].date)})

\* C22: computing scores changes no counter: at every point of a run the
\* monthly counters, the last-assigned date and the weekend counter of every
\* staff member are determined by the rows in which that staff member was
\* selected alone (row count per month, date of the latest row, number of
\* weekend rows), and a staff member never selected reads 0 and "never
\* assigned", in however many slots that staff member was scored.
C22_ScoringLeavesCounters ==
    \A d \in Ids :
        /\ \A m \in MonthKeys : shift_counts[d][m] = Cardinality(RowsIn(d, m))
        /\ last_shift_date[d] = IF RowsOf(d) = 0 THEN DateMin ELSE LastRowDate(d)
        /\ weekend_counts[d] = WeekendRows(d)

\* Two staff members, each selected in some slots and scored without being
\* selected in others (one of them in at least two), with a weekend row and
\* a forced slot among the rows.
C22_Witness ==
    /\ Len(doctor_ids) = 2
    /\ warnings # <<>>
    /\ \E d, o \in Ids :
          /\ d # o
          /\ RowsOf(d) >= 1
          /\ ScoredNotSelected(d) >= 2
          /\ RowsOf(o) >= 1
          /\ ScoredNotSelected(o) >= 1
          /\ WeekendRows(o) >= 1

====
